---- MODULE Spec2Model ----
(***************************************************************************)
(* The one-dimensional Doppler-cooling notebook (src/unnamed/part_000) and *)
(* the Rydberg-array notebook (src/unnamed/part_001) as a state machine: a *)
(* run executes the code cells of one notebook top to bottom and binds its *)
(* globals.  Doppler operators are integer matrices over the basis         *)
(* {g, e} (x) {p = -nmax .. nmax}; a basis state |s, n> has the index      *)
(* s*(2*nmax+1) + n, as in a Kronecker product.                            *)
(*                                                                         *)
(* Rydberg operators are integer matrices over Natoms two-level factors,   *)
(* site 0 the most significant.                                            *)
(*                                                                         *)
(* mcsolve is a call into the quantum-optics library: none of its code is  *)
(* in the repository.  The model keeps what the notebook hands to it and   *)
(* lets it return any result (or raise); only the notebook's own use of    *)
(* the result is modelled.                                                 *)
(***************************************************************************)
EXTENDS Integers, Sequences, FiniteSets, TLC

\* Bounds of the model (the notebook sets nmax = 50 and 5000 sample times).
MaxNmax == 3
MaxPoints == 3
MaxObs == 1
\* The Rydberg notebook sets Natoms = 9.
MaxAtoms == 3
\* The notebook's two versions set k = 2*pi/589E-9 and k = 2*pi/780E-9, with
\* hbar/mRb = 1.05457E-34/3.8175409E-26; the model takes both from 1 .. bound.
MaxK == 2
MaxHbarOverM == 2

VARIABLES
  pc,          \* the next code cell of the notebook to run
  nmax,        \* momentum cut-off: the basis holds p = -nmax .. nmax
  npoints,     \* number of sample times in timeax
  psi0,        \* initial ket
  coupling,    \* sigma_x (x) tunneling
  momentum,    \* 1 (x) charge
  Pe,          \* |e><e| (x) 1
  Cs,          \* the jump operators <<C0, Cmk, Cpk>>
  H,           \* twice the Hamiltonian (2*H has integer entries)
  expect,      \* result.expect: one sequence of values per observable (lengths kept)
  exported,    \* what the export cell wrote
  probe,       \* index of a basis state the notebook's operators are applied to
  lastop,      \* the operator applied to the probe last
  notebook,    \* which notebook is run
  Natoms,      \* number of sites of the Rydberg array
  iloop,       \* loop variable i of the operator-building loop
  dumoperator, \* the loop's working list of one-site operators
  fullsigmax,  \* list: sigma_x on site i
  fullnumberop,\* list: number operator on site i
  psi_list,    \* list of the one-site kets of the initial state
  hbarOvermRb, \* hbar/mRb
  k,           \* wave number of the light
  timeax       \* the sample times, as fractions num/den

vars == <<pc, nmax, npoints, psi0, coupling, momentum, Pe, Cs, H, expect, exported,
          probe, lastop, notebook, Natoms, iloop, dumoperator, fullsigmax,
          fullnumberop, psi_list, hbarOvermRb, k, timeax>>

\* The globals of the Rydberg notebook, and those only the Doppler notebook has.
ryd == <<notebook, Natoms, iloop, dumoperator, fullsigmax, fullnumberop, psi_list>>
dop == <<nmax, coupling, momentum, Pe, Cs, exported, probe, lastop, hbarOvermRb, k, timeax>>

\* The physical parameters of the Doppler notebook.
units == <<hbarOvermRb, k>>

\* A global that no cell has bound yet.
Unset == <<>>

(***************************************************************************)
(* The library's operator constructors, by what they build.                *)
(***************************************************************************)
Idx(N) == 0 .. (N - 1)

\* basis(N, n): the ket with a 1 in row n.
basis(N, n) == [dims |-> <<N>>, vec |-> [i \in Idx(N) |-> IF i = n THEN 1 ELSE 0]]

\* qeye(N)
qeye(N) ==
  LET f(i, j) == IF i = j THEN 1 ELSE 0
  IN  [dims |-> <<N>>, data |-> [i \in Idx(N), j \in Idx(N) |-> f(i, j)]]

\* sigmax()
sigmax ==
  LET f(i, j) == IF i # j THEN 1 ELSE 0
  IN  [dims |-> <<2>>, data |-> [i \in Idx(2), j \in Idx(2) |-> f(i, j)]]

\* tunneling(N, m): sum over n of |n><n+m| + |n+m><n|.
tunneling(N, m) ==
  LET f(i, j) == IF j = i + m \/ i = j + m THEN 1 ELSE 0
  IN  [dims |-> <<N>>, data |-> [i \in Idx(N), j \in Idx(N) |-> f(i, j)]]

\* charge(Nmax): diag(-Nmax .. Nmax), of dimension 2*Nmax + 1.
charge(Nmax) ==
  LET f(i, j) == IF i = j THEN i - Nmax ELSE 0
  IN  [dims |-> <<2 * Nmax + 1>>, data |-> [i \in Idx(2 * Nmax + 1), j \in Idx(2 * Nmax + 1) |-> f(i, j)]]

\* basis(2, 1).proj(): |1><1|.
projE ==
  LET f(i, j) == IF i = 1 /\ j = 1 THEN 1 ELSE 0
  IN  [dims |-> <<2>>, data |-> [i \in Idx(2), j \in Idx(2) |-> f(i, j)]]

\* The transposed matrix, Qobj([[0, 0], [1, 0]]) = |e><g|: it takes g to e.
excite ==
  LET f(i, j) == IF i = 1 /\ j = 0 THEN 1 ELSE 0
  IN  [dims |-> <<2>>, data |-> [i \in Idx(2), j \in Idx(2) |-> f(i, j)]]

\* Qobj([[0, 1], [0, 0]]): |0><1|.
decay ==
  LET f(i, j) == IF i = 0 /\ j = 1 THEN 1 ELSE 0
  IN  [dims |-> <<2>>, data |-> [i \in Idx(2), j \in Idx(2) |-> f(i, j)]]

\* qdiags(np.ones(N - 1), d): ones on the d-th diagonal (entries [i, i+d]).
qdiags(N, d) ==
  LET f(i, j) == IF j = i + d THEN 1 ELSE 0
  IN  [dims |-> <<N>>, data |-> [i \in Idx(N), j \in Idx(N) |-> f(i, j)]]

\* The total dimension: the product of the tensor-factor dimensions.
RECURSIVE Prod(_)
Prod(ds) == IF ds = <<>> THEN 1 ELSE Head(ds) * Prod(Tail(ds))

Dim(q) == Prod(q.dims)

\* tensor(A, B) of two operators: the Kronecker product, dims concatenated.
tensor(A, B) ==
  LET NB == Dim(B)
      f(i, j) == A.data[i \div NB, j \div NB] * B.data[i % NB, j % NB]
  IN  [dims |-> A.dims \o B.dims, data |-> [i \in Idx(Dim(A) * NB), j \in Idx(Dim(A) * NB) |-> f(i, j)]]

\* tensor(a, b) of two kets.
tensorKet(a, b) ==
  LET NB == Dim(b)
  IN  [dims |-> a.dims \o b.dims,
       vec  |-> [i \in Idx(Dim(a) * NB) |-> a.vec[i \div NB] * b.vec[i % NB]]]

\* tensor(list) of operators, and of kets.
RECURSIVE TensorList(_)
TensorList(ops) ==
  IF Len(ops) = 1 THEN ops[1] ELSE tensor(ops[1], TensorList(Tail(ops)))

RECURSIVE TensorKetList(_)
TensorKetList(kets) ==
  IF Len(kets) = 1 THEN kets[1] ELSE tensorKet(kets[1], TensorKetList(Tail(kets)))

\* sigmaz()
sigmaz ==
  LET f(i, j) == IF i # j THEN 0 ELSE IF i = 0 THEN 1 ELSE -1
  IN  [dims |-> <<2>>, data |-> [i \in Idx(2), j \in Idx(2) |-> f(i, j)]]

\* A * B (matrix product) and A ** 2.
RECURSIVE SumTo(_, _)
SumTo(g, n) == IF n < 0 THEN 0 ELSE g[n] + SumTo(g, n - 1)

MatMul(A, B) ==
  LET N == Dim(A)
      f(i, j) == SumTo([l \in Idx(N) |-> A.data[i, l] * B.data[l, j]], N - 1)
  IN  [dims |-> A.dims, data |-> [i \in Idx(N), j \in Idx(N) |-> f(i, j)]]

\* a*A + b*B + c*C for integers a, b, c.
Lin3(a, A, b, B, c, C) ==
  LET f(i, j) == a * A.data[i, j] + b * B.data[i, j] + c * C.data[i, j]
  IN  [dims |-> A.dims, data |-> [i \in Idx(Dim(A)), j \in Idx(Dim(A)) |-> f(i, j)]]

\* The basis states a ket has a nonzero amplitude on.
SupportOf(ket) == {i \in DOMAIN ket.vec : ket.vec[i] # 0}

\* X applied to the basis state of index i: the rows j with X[j, i] # 0.
RowsOf(X) == {p[1] : p \in DOMAIN X.data}
Image(X, i) == {j \in RowsOf(X) : X.data[j, i] # 0}

\* <i| X^dagger X |i> for a real matrix X: the squared norm of column i.
ColNorm2(X, i) ==
  LET N == Dim(X)
  IN  SumTo([j \in Idx(N) |-> X.data[j, i] * X.data[j, i]], N - 1)

(***************************************************************************)
(* The notebook's cells.                                                   *)
(***************************************************************************)
\* Variant: the momentum factor is the first basis state (p = -nmax), not the
\* middle one.
MakePsi0FirstIndex(n) == tensorKet(basis(2, 0), basis(2 * n + 1, 0))

\* psi0 = tensor(basis(2,0), basis(2*nmax + 1, nmax))
MakePsi0(n) == tensorKet(basis(2, 0), basis(2 * n + 1, n))

\* A coupling without the momentum kick of the photon: sigma_x (x) 1.
MakeCouplingNoRecoil(n) == tensor(sigmax, qeye(2 * n + 1))

\* Variant: tunneling over two momentum units.
MakeCouplingTwoSteps(n) == tensor(sigmax, tunneling(2 * n + 1, 2))

\* coupling = tensor(sigmax(), tunneling(2*nmax + 1, 1))
MakeCoupling(n) == tensor(sigmax, tunneling(2 * n + 1, 1))

\* momentum = tensor(qeye(2), charge(nmax))
MakeMomentum(n) == tensor(qeye(2), charge(n))

\* Pe = tensor(basis(2, 1).proj(), qeye(2*nmax + 1))
MakePe(n) == tensor(projE, qeye(2 * n + 1))

\* Variant: a linewidth that does not follow the mass (200*k**2 for every
\* hbar/mRb), as a fixed linewidth like the commented-out 2*np.pi * 6.065E6 would.
GammaWithoutMass == 200 * k * k

\* Gamma = 200*hbar*k**2/mRb
Gamma == 200 * hbarOvermRb * k * k
\* Omega = Gamma/2
Omega == Gamma \div 2
\* delta = -Gamma/2
delta == 0 - (Gamma \div 2)

\* a * A for a number a.
Scale(a, A) == [dims |-> A.dims, data |-> [p \in DOMAIN A.data |-> a * A.data[p]]]

\* np.linspace(a, b, n): n evenly spaced numbers from a to b, as fractions.
linspace(a, b, n) ==
  [j \in 1 .. n |-> IF n = 1 THEN [num |-> a, den |-> 1]
                    ELSE [num |-> a * (n - 1) + (j - 1) * (b - a), den |-> n - 1]]

\* xs / g and xs * g for a sequence of fractions and a number g.
DivSeq(xs, g) == [j \in DOMAIN xs |-> [num |-> xs[j].num, den |-> xs[j].den * g]]
MulSeq(xs, g) == [j \in DOMAIN xs |-> [num |-> xs[j].num * g, den |-> xs[j].den]]

\* Two fractions are the same number.
SameNumber(x, y) == x.num * y.den = y.num * x.den

\* C = sqrt(rate5/5 * scale) * op: the prefactor is kept as its square, the
\* fraction rate5/5 times the factor scale (Gamma in the source).
\* Variant: C0 with the prefactor of the other two channels.
MakeC0RateOne(n) == [rate5 |-> 1, scale |-> Gamma, op |-> tensor(decay, qeye(2 * n + 1))]

\* Variant: Cmk with a diagonal one entry too long (np.ones(2*nmax + 1)), which
\* makes the momentum factor one dimension larger than the basis.
MakeCmkLongDiagonal(n) ==
  [rate5 |-> 1, scale |-> Gamma, op |-> tensor(decay, qdiags(2 * n + 2, 1))]

\* C0 = np.sqrt(3/5 * Gamma) * tensor(decay, qeye(2*nmax + 1)), and likewise
\* Cmk and Cpk with 1/5 and the two off-diagonals.
MakeC0(n)  == [rate5 |-> 3, scale |-> Gamma, op |-> tensor(decay, qeye(2 * n + 1))]
MakeCmk(n) == [rate5 |-> 1, scale |-> Gamma, op |-> tensor(decay, qdiags(2 * n + 1, 1))]
MakeCpk(n) == [rate5 |-> 1, scale |-> Gamma, op |-> tensor(decay, qdiags(2 * n + 1, -1))]

\* H = hbarOvermRb*(k*momentum)**2/2 + Omega/2 * coupling - delta * Pe, times
\* 2 so that every entry is an integer: (k*momentum)**2 is the matrix square.
MakeH(mom, coup, pe) ==
  LET kp == Scale(k, mom)
  IN  Lin3(hbarOvermRb, MatMul(kp, kp), Omega, coup, 0 - 2 * delta, pe)

CellParams ==
  /\ pc = "params"
  /\ psi0' = MakePsi0(nmax)
  /\ pc' = "coupling"
  /\ UNCHANGED <<nmax, npoints, coupling, momentum, Pe, Cs, H, expect, exported, probe, lastop, units, timeax, ryd>>

CellCoupling ==
  /\ pc = "coupling"
  /\ coupling' = MakeCoupling(nmax)
  /\ pc' = "momentum"
  /\ UNCHANGED <<nmax, npoints, psi0, momentum, Pe, Cs, H, expect, exported, probe, lastop, units, timeax, ryd>>

CellMomentum ==
  /\ pc = "momentum"
  /\ momentum' = MakeMomentum(nmax)
  /\ pc' = "Pe"
  /\ UNCHANGED <<nmax, npoints, psi0, coupling, Pe, Cs, H, expect, exported, probe, lastop, units, timeax, ryd>>

CellPe ==
  /\ pc = "Pe"
  /\ Pe' = MakePe(nmax)
  /\ pc' = "Cs"
  /\ UNCHANGED <<nmax, npoints, psi0, coupling, momentum, Cs, H, expect, exported, probe, lastop, units, timeax, ryd>>

CellCs ==
  /\ pc = "Cs"
  /\ Cs' = <<MakeC0(nmax), MakeCmk(nmax), MakeCpk(nmax)>>
  /\ pc' = "H"
  /\ UNCHANGED <<nmax, npoints, psi0, coupling, momentum, Pe, H, expect, exported, probe, lastop, units, timeax, ryd>>

CellH ==
  /\ pc = "H"
  /\ H' = MakeH(momentum, coupling, Pe)
  /\ pc' = "solve"
  /\ probe' = CHOOSE i \in SupportOf(psi0) : TRUE
  /\ UNCHANGED <<nmax, npoints, psi0, coupling, momentum, Pe, Cs, expect, exported, lastop, units, timeax, ryd>>

\* timeax = np.linspace(0, 2000, 5000)/Gamma;
\* result = mcsolve(H, psi0, timeax, e_ops = momentum**2, c_ops = Cs, ntraj = 1000).
\* The library's code is not in the repository: the call returns a result with
\* any number of traces of any lengths.
CellSolveReturns ==
  /\ pc = "solve"
  /\ \E K \in 1 .. MaxObs :
       \E lens \in [1 .. K -> 0 .. (MaxPoints + 1)] : expect' = lens
  /\ pc' = "plot"
  /\ probe' = -1
  /\ lastop' = "none"
  /\ timeax' = DivSeq(linspace(0, 2000, npoints), Gamma)
  /\ UNCHANGED <<nmax, npoints, psi0, coupling, momentum, Pe, Cs, H, exported, units, ryd>>

\* ... or raises, which ends the notebook run.
CellSolveRaises ==
  /\ pc = "solve"
  /\ pc' = "error"
  /\ probe' = -1
  /\ lastop' = "none"
  /\ timeax' = DivSeq(linspace(0, 2000, npoints), Gamma)
  /\ UNCHANGED <<nmax, npoints, psi0, coupling, momentum, Pe, Cs, H, expect, exported, units, ryd>>

\* ax.plot(timeax*Gamma, result.expect[0]): x and y must have the same length.
CellPlot ==
  /\ pc = "plot"
  /\ pc' = IF expect[1] = npoints THEN "export" ELSE "error"
  /\ UNCHANGED <<nmax, npoints, psi0, coupling, momentum, Pe, Cs, H, expect, exported, probe, lastop, units, timeax, ryd>>

\* exportdata = np.transpose([timeax*Gamma, result.expect[0]]); one csv row per
\* row of exportdata: npoints rows (time, value).  The time is timeax*Gamma;
\* the value is kept as its position in the trace.
CellExport ==
  /\ pc = "export"
  /\ exported' = [j \in 1 .. npoints |-> <<MulSeq(timeax, Gamma)[j], j>>]
  /\ pc' = "done"
  /\ UNCHANGED <<nmax, npoints, psi0, coupling, momentum, Pe, Cs, H, expect, probe, lastop, units, timeax, ryd>>

\* The operators handed to mcsolve (H and c_ops = Cs) act on the state by
\* matrix multiplication.  The probe follows one component of the state: from
\* psi0, any run of applications of H (coherent evolution) and of a jump
\* operator leads it to a basis state on which the result has an amplitude.
ChannelName == <<"C0", "Cmk", "Cpk">>

ApplyH ==
  /\ pc = "solve"
  /\ \E j \in Image(H, probe) : probe' = j
  /\ lastop' = "H"
  /\ UNCHANGED <<pc, nmax, npoints, psi0, coupling, momentum, Pe, Cs, H, expect, exported, units, timeax, ryd>>

ApplyC(c) ==
  /\ pc = "solve"
  /\ \E j \in Image(Cs[c].op, probe) : probe' = j
  /\ lastop' = ChannelName[c]
  /\ UNCHANGED <<pc, nmax, npoints, psi0, coupling, momentum, Pe, Cs, H, expect, exported, units, timeax, ryd>>

(***************************************************************************)
(* The Rydberg-array notebook.                                             *)
(***************************************************************************)
\* (1 - sigmaz())/2: the scalar 1 stands for the identity.
numberop ==
  LET f(i, j) == (qeye(2).data[i, j] - sigmaz.data[i, j]) \div 2
  IN  [dims |-> <<2>>, data |-> [i \in Idx(2), j \in Idx(2) |-> f(i, j)]]

\* np.sum(list of operators): the entrywise sum.
RECURSIVE SumSeq(_)
SumSeq(xs) == IF xs = <<>> THEN 0 ELSE Head(xs) + SumSeq(Tail(xs))

SumOps(ops) ==
  [dims |-> ops[1].dims,
   data |-> [i \in Idx(Dim(ops[1])), j \in Idx(Dim(ops[1])) |->
               SumSeq([l \in 1 .. Len(ops) |-> ops[l].data[i, j]])]]

\* si = qeye(2); fullsigmax = []; fullnumberop = []; the loop starts at i = 0.
CellOpsInit ==
  /\ pc = "ops"
  /\ fullsigmax' = <<>>
  /\ fullnumberop' = <<>>
  /\ iloop' = 0
  /\ pc' = "loop_sigmax"
  /\ UNCHANGED <<notebook, Natoms, dumoperator, psi_list, npoints, psi0, H, expect, dop>>

\* A loop that builds the working list once and keeps it across iterations:
\* the number operator written in iteration i is still there in iteration i + 1.
DumoperatorKept(N) ==
  IF Len(dumoperator) = N THEN dumoperator ELSE [j \in 1 .. N |-> qeye(2)]

\* dumoperator = []; for j in range(Natoms): dumoperator.append(si): every
\* iteration of the outer loop starts from a new list of identities.
NewDumoperator(N) == [j \in 1 .. N |-> qeye(2)]

\* dumoperator[i] = sigmax(); fullsigmax.append(tensor(dumoperator)).  tensor
\* returns a new operator, so the list entry holds no reference to dumoperator.
\* Entry i of the list is at position i + 1 of the sequence.
LoopSigmax ==
  /\ pc = "loop_sigmax"
  /\ iloop < Natoms
  /\ dumoperator' = [NewDumoperator(Natoms) EXCEPT ![iloop + 1] = sigmax]
  /\ fullsigmax' = Append(fullsigmax, TensorList(dumoperator'))
  /\ pc' = "loop_number"
  /\ UNCHANGED <<notebook, Natoms, iloop, fullnumberop, psi_list, npoints, psi0, H, expect, dop>>

\* dumoperator[i] = (1-sigmaz())/2; fullnumberop.append(tensor(dumoperator));
\* next i.
LoopNumber ==
  /\ pc = "loop_number"
  /\ dumoperator' = [dumoperator EXCEPT ![iloop + 1] = numberop]
  /\ fullnumberop' = Append(fullnumberop, TensorList(dumoperator'))
  /\ iloop' = iloop + 1
  /\ pc' = "loop_sigmax"
  /\ UNCHANGED <<notebook, Natoms, fullsigmax, psi_list, npoints, psi0, H, expect, dop>>

\* range(Natoms) is exhausted.
LoopExit ==
  /\ pc = "loop_sigmax"
  /\ iloop >= Natoms
  /\ pc' = "rydH"
  /\ UNCHANGED <<ryd, npoints, psi0, H, expect, dop>>

\* if abs(i - j) == 1:
Interacts(i, j) == (IF i < j THEN j - i ELSE i - j) = 1

\* for j in range(Natoms): for i in range(j): if ...: the pairs that add a term.
InteractingPairs(N) ==
  {p \in (0 .. (N - 1)) \X (0 .. (N - 1)) : p[1] < p[2] /\ Interacts(p[1], p[2])}

RECURSIVE SumSet(_, _)
SumSet(g, S) ==
  IF S = {} THEN 0
  ELSE LET x == CHOOSE y \in S : TRUE IN g[x] + SumSet(g, S \ {x})

\* H = Omega/2 * np.sum(fullsigmax) - Delta * np.sum(fullnumberop), then
\* H += -C6/(a*|i-j|)**6 * fullnumberop[i]*fullnumberop[j] for the pairs above.
\* The three kinds of terms are kept apart: omega2 has the prefactor Omega/2,
\* delta the prefactor -Delta, and v[d] the prefactor -C6/(a*d)**6.
MakeRydH(fsx, fno, N) ==
  LET prod == [p \in InteractingPairs(N) |-> MatMul(fno[p[1] + 1], fno[p[2] + 1])]
      atDist(d) == {p \in InteractingPairs(N) : p[2] - p[1] = d}
  IN  [dims   |-> fsx[1].dims,
       omega2 |-> SumOps(fsx),
       delta  |-> SumOps(fno),
       v      |-> [d \in 1 .. (N - 1) |->
                    [i \in Idx(Dim(fsx[1])), j \in Idx(Dim(fsx[1])) |->
                       SumSet([p \in atDist(d) |-> prod[p].data[i, j]], atDist(d))]]]

CellRydH ==
  /\ pc = "rydH"
  /\ H' = MakeRydH(fullsigmax, fullnumberop, Natoms)
  /\ pc' = "rydpsi0"
  /\ UNCHANGED <<ryd, npoints, psi0, expect, dop>>

\* Variant: ground on the even sites, Rydberg on the odd ones.
MakePsiListOddRydberg(N) ==
  [n \in 1 .. N |-> IF (n - 1) % 2 = 0 THEN basis(2, 0) ELSE basis(2, 1)]

\* for n in range(Natoms): basis(2, 1) if n % 2 == 0 else basis(2, 0).  Entry n
\* of the list is at position n + 1 of the sequence.
MakePsiList(N) ==
  [n \in 1 .. N |-> IF (n - 1) % 2 = 0 THEN basis(2, 1) ELSE basis(2, 0)]

\* psi_list = [...]; psi0 = tensor(psi_list)
CellRydPsi0 ==
  /\ pc = "rydpsi0"
  /\ psi_list' = MakePsiList(Natoms)
  /\ psi0' = TensorKetList(psi_list')
  /\ pc' = "rydsolve"
  /\ UNCHANGED <<notebook, Natoms, iloop, dumoperator, fullsigmax, fullnumberop,
                 npoints, H, expect, dop>>

\* sol = sesolve(H, psi0, timear, fullnumberop): library code, as mcsolve; it
\* returns any number of traces of some length ...
CellRydSolveReturns ==
  /\ pc = "rydsolve"
  /\ \E K \in 0 .. (MaxAtoms + 1), L \in 0 .. (MaxPoints + 1) :
       expect' = [l \in 1 .. K |-> L]
  /\ pc' = "pops"
  /\ UNCHANGED <<ryd, npoints, psi0, H, dop>>

\* ... or raises.
CellRydSolveRaises ==
  /\ pc = "rydsolve"
  /\ pc' = "error"
  /\ UNCHANGED <<ryd, npoints, psi0, H, expect, dop>>

\* for i in range(Natoms): pops.append(sol.expect[i]): an IndexError when the
\* result holds fewer traces.
CellPops ==
  /\ pc = "pops"
  /\ pc' = IF Len(expect) >= Natoms THEN "done" ELSE "error"
  /\ UNCHANGED <<ryd, npoints, psi0, H, expect, dop>>

InitDoppler ==
  /\ notebook = "doppler"
  /\ pc = "params"
  /\ nmax \in 1 .. MaxNmax
  /\ hbarOvermRb \in 1 .. MaxHbarOverM
  /\ k \in 1 .. MaxK
  /\ Natoms = 0

InitRydberg ==
  /\ notebook = "rydberg"
  /\ pc = "ops"
  /\ Natoms \in 1 .. MaxAtoms
  /\ nmax = 0
  /\ hbarOvermRb = 0
  /\ k = 0

Init ==
  /\ InitDoppler \/ InitRydberg
  /\ iloop = 0
  /\ dumoperator = Unset
  /\ fullsigmax = Unset
  /\ fullnumberop = Unset
  /\ psi_list = Unset
  /\ npoints \in 1 .. MaxPoints
  /\ psi0 = Unset
  /\ coupling = Unset
  /\ momentum = Unset
  /\ Pe = Unset
  /\ Cs = Unset
  /\ H = Unset
  /\ expect = Unset
  /\ exported = Unset
  /\ timeax = Unset
  /\ probe = -1
  /\ lastop = "none"

Next ==
  \/ CellParams
  \/ CellCoupling
  \/ CellMomentum
  \/ CellPe
  \/ CellCs
  \/ CellH
  \/ CellSolveReturns
  \/ CellSolveRaises
  \/ CellPlot
  \/ CellExport
  \/ ApplyH
  \/ \E c \in 1 .. 3 : ApplyC(c)
  \/ CellOpsInit
  \/ LoopSigmax
  \/ LoopNumber
  \/ LoopExit
  \/ CellRydH
  \/ CellRydPsi0
  \/ CellRydSolveReturns
  \/ CellRydSolveRaises
  \/ CellPops

Spec == Init /\ [][Next]_vars

(***************************************************************************)
(* Properties of the Doppler notebook.                                     *)
(***************************************************************************)
NMom == 2 * nmax + 1
DimD == 2 * NMom
Index(s, n) == s * NMom + n
SOf(i) == i \div NMom
NOf(i) == i % NMom
Abs(x) == IF x < 0 THEN 0 - x ELSE x

\* Which globals the cells run so far have bound.
HasPsi0 == notebook = "doppler" /\ pc \notin {"params"}
HasCoupling == notebook = "doppler" /\ pc \notin {"params", "coupling"}
HasMomentum == notebook = "doppler" /\ pc \notin {"params", "coupling", "momentum"}
HasCs == notebook = "doppler" /\ pc \notin {"params", "coupling", "momentum", "Pe", "Cs"}
OpsDefined == notebook = "doppler" /\ pc \notin {"params", "coupling", "momentum", "Pe", "Cs", "H"}

\* X applied to a ket: the vector of sums over the columns.
MatVec(X, ket) ==
  LET N == Dim(X)
  IN  [j \in Idx(N) |-> SumTo([i \in Idx(N) |-> X.data[j, i] * ket.vec[i]], N - 1)]

\* The weights <i| C^dagger C |i> of the three channels, in units of Gamma/5.
WeightsAt(i) == [c \in 1 .. 3 |-> Cs[c].rate5 * ColNorm2(Cs[c].op, i)]

\* C14: H, C0, Cmk and Cpk have the tensor structure {g, e} (x) {0 .. 2*nmax} of
\* psi0 and are square over it, so each maps every basis state |s, n> of the
\* window to basis states of the window, and a state reached from psi0 by any
\* run of applications of H and of jump operators lies in the window.
WindowClosed ==
  OpsDefined =>
    /\ psi0.dims = <<2, NMom>>
    /\ \A X \in {H, Cs[1].op, Cs[2].op, Cs[3].op} :
         /\ X.dims = <<2, NMom>>
         /\ DOMAIN X.data = Idx(DimD) \X Idx(DimD)
         /\ \A i \in Idx(DimD) : Image(X, i) \subseteq Idx(DimD)
    /\ pc = "solve" => probe \in Idx(DimD)

\* C14 witness: a jump through Cmk has taken the state to the lower edge n = 0.
WindowClosedWitness ==
  pc = "solve" /\ lastop = "Cmk" /\ NOf(probe) = 0 /\ SOf(probe) = 0

\* C15 as stated: at every excited basis state |e, n>, n in 0 .. 2*nmax, the
\* channel weights of C0, Cmk, Cpk are 3/5, 1/5, 1/5 of Gamma.
JumpWeightsEverywhere ==
  HasCs => \A n \in 0 .. (2 * nmax) : WeightsAt(Index(1, n)) = <<3, 1, 1>>

\* C15 amended: the weights are 3 : 1 : 1 (of total 5, i.e. Gamma) at every
\* |e, n> with 0 < n < 2*nmax; at n = 0 the weight of Cmk is 0 and at
\* n = 2*nmax the weight of Cpk is 0 (total 4/5 Gamma).
JumpWeightsInterior ==
  HasCs =>
    \A n \in 0 .. (2 * nmax) :
      WeightsAt(Index(1, n)) =
        <<3, IF n = 0 THEN 0 ELSE 1, IF n = 2 * nmax THEN 0 ELSE 1>>

\* C15 witness: coherent evolution has reached an excited state inside the window,
\* from which all three jumps are possible.
JumpWeightsWitness ==
  /\ pc = "solve" /\ lastop = "H" /\ SOf(probe) = 1
  /\ NOf(probe) \in 1 .. (2 * nmax - 1)
  /\ \A c \in 1 .. 3 : ENABLED ApplyC(c)

\* C16: coupling has a matrix element (equal to 1) between |s, n> and |s', n'>
\* exactly when s' # s and n' = n + 1 or n' = n - 1, and no other; the kinetic
\* term momentum**2 and the detuning term Pe are diagonal, so every off-diagonal
\* element of H comes from coupling.
CouplingShape ==
  /\ HasCoupling =>
       \A i \in Idx(DimD), j \in Idx(DimD) :
         coupling.data[j, i] =
           IF SOf(j) # SOf(i) /\ Abs(NOf(j) - NOf(i)) = 1 THEN 1 ELSE 0
  /\ OpsDefined =>
       LET kinetic == MatMul(momentum, momentum)
       IN  \A i \in Idx(DimD), j \in Idx(DimD) :
             i # j => /\ kinetic.data[j, i] = 0
                      /\ Pe.data[j, i] = 0
                      /\ H.data[j, i] = Omega * coupling.data[j, i]

\* C16 witness: one application of H has taken |g, p = 0> to |e, p = +1>.
CouplingShapeWitness ==
  pc = "solve" /\ lastop = "H" /\ probe = Index(1, nmax + 1)

\* C17: psi0 is the basis state |g, p = 0>: amplitude 1 at (internal 0, momentum
\* index nmax) and 0 elsewhere; decay annihilates the internal state 0, as do
\* the three jump operators built from it; and momentum psi0 = 0 * psi0.
Psi0IsGroundZeroMomentum ==
  HasPsi0 =>
    /\ psi0.dims = <<2, NMom>>
    /\ SupportOf(psi0) = {Index(0, nmax)}
    /\ psi0.vec[Index(0, nmax)] = 1
    /\ \A j \in Idx(2) : decay.data[j, 0] = 0
    /\ charge(nmax).data[nmax, nmax] = 0
    /\ HasMomentum =>
         LET p == MatVec(momentum, psi0)
         IN  \A j \in Idx(DimD) : p[j] = 0
    /\ HasCs => \A c \in 1 .. 3 : Image(Cs[c].op, Index(0, nmax)) = {}

\* C17 witness: all operators are built and nothing has acted on psi0 yet.
Psi0Witness ==
  pc = "solve" /\ lastop = "none" /\ nmax = 2 /\ probe = Index(0, nmax)

(***************************************************************************)
(* Properties of the Rydberg-array notebook.                               *)
(***************************************************************************)
RECURSIVE Pow2(_)
Pow2(n) == IF n = 0 THEN 1 ELSE 2 * Pow2(n - 1)

\* Index of the basis state in which exactly the sites i and j are Rydberg.
PairState(i, j) == Pow2(Natoms - 1 - i) + Pow2(Natoms - 1 - j)

HasRydH == notebook = "rydberg" /\ pc \notin {"ops", "loop_sigmax", "loop_number", "rydH"}
HasRydPsi0 == HasRydH /\ pc # "rydpsi0"

\* C18 as stated: H holds the term V_ij n_i n_j, V_ij = -C6/(a*|i-j|)**6, for
\* every pair of sites i < j: the state with exactly i and j Rydberg has the
\* interaction energy V_ij, and there are Natoms*(Natoms-1)/2 terms.
RydbergAllPairsInteract ==
  HasRydH =>
    /\ \A i \in 0 .. (Natoms - 1), j \in 0 .. (Natoms - 1) :
         i < j => H.v[j - i][PairState(i, j), PairState(i, j)] = 1
    /\ 2 * Cardinality(InteractingPairs(Natoms)) = Natoms * (Natoms - 1)

\* Site n of psi0 is an eigenstate of fullnumberop[n] with eigenvalue 1, resp. 0.
SiteRydberg(n) ==
  LET v == MatVec(fullnumberop[n + 1], psi0)
  IN  \A b \in DOMAIN psi0.vec : v[b] = psi0.vec[b]

SiteGround(n) ==
  LET v == MatVec(fullnumberop[n + 1], psi0)
  IN  \A b \in DOMAIN psi0.vec : v[b] = 0

AlternatingFromRydberg ==
  /\ Cardinality(SupportOf(psi0)) = 1
  /\ psi0.dims = [n \in 1 .. Natoms |-> 2]
  /\ \A n \in 0 .. (Natoms - 1) :
       IF n % 2 = 0 THEN SiteRydberg(n) ELSE SiteGround(n)
  /\ \A n \in 0 .. (Natoms - 2) : ~(SiteRydberg(n) /\ SiteRydberg(n + 1))
  /\ SiteRydberg(0)

\* C19 as stated: for every Natoms, site n is Rydberg exactly when n is even, no
\* two neighbours are both Rydberg, and the first and the last site are Rydberg.
Psi0EndsRydberg ==
  HasRydPsi0 => AlternatingFromRydberg /\ SiteRydberg(Natoms - 1)

\* C19 amended: the same, but the last site is Rydberg exactly when Natoms is odd
\* and ground when Natoms is even.
Psi0AlternatesFromRydberg ==
  HasRydPsi0 =>
    /\ AlternatingFromRydberg
    /\ IF Natoms % 2 = 1 THEN SiteRydberg(Natoms - 1) ELSE SiteGround(Natoms - 1)

\* C19 witness: psi0 has been built for three sites, |r g r>.
Psi0AlternatesWitness ==
  pc = "rydsolve" /\ Natoms = 3 /\ Len(psi_list) = 3 /\ SiteRydberg(2)

(***************************************************************************)
(* The operator-building loop of the Rydberg notebook.                     *)
(***************************************************************************)

\* The occupation (0 or 1) of site n in the basis state b.
SiteBit(b, n) == (b \div Pow2(Natoms - 1 - n)) % 2

\* X has sigma_x on site n and the identity on every other site: it flips
\* the bit of site n and nothing else.
IsSigmaxOnSite(X, n) ==
  /\ X.dims = [j \in 1 .. Natoms |-> 2]
  /\ \A r, c \in Idx(Pow2(Natoms)) :
       X.data[r, c] = IF /\ SiteBit(r, n) # SiteBit(c, n)
                         /\ \A s \in Idx(Natoms) \ {n} : SiteBit(r, s) = SiteBit(c, s)
                      THEN 1 ELSE 0

\* X has the number operator on site n and the identity on every other site:
\* it is diagonal and reads the occupation of site n.
IsNumberOnSite(X, n) ==
  /\ X.dims = [j \in 1 .. Natoms |-> 2]
  /\ \A r, c \in Idx(Pow2(Natoms)) :
       X.data[r, c] = IF r = c THEN SiteBit(r, n) ELSE 0

InRydLoop == notebook = "rydberg" /\ pc # "ops"

\* C26: at every point of the loop and after it, every entry i of fullsigmax
\* built so far is sigma_x on site i and the identity elsewhere, and every
\* entry i of fullnumberop is the number operator on site i and the identity
\* elsewhere; this includes the states after entry i of the working list was
\* replaced by the number operator and after later iterations ran.  The loop
\* leaves one entry per site in each list.
LoopBuildsSiteOperators ==
  InRydLoop =>
    /\ \A i \in 1 .. Len(fullsigmax) : IsSigmaxOnSite(fullsigmax[i], i - 1)
    /\ \A i \in 1 .. Len(fullnumberop) : IsNumberOnSite(fullnumberop[i], i - 1)
    /\ Len(fullnumberop) = iloop
    /\ Len(fullsigmax) = IF pc = "loop_number" THEN iloop + 1 ELSE iloop
    /\ pc \notin {"loop_sigmax", "loop_number"} =>
         Len(fullsigmax) = Natoms /\ Len(fullnumberop) = Natoms

\* The second iteration has built its sigma_x after the first one wrote the
\* number operator into the working list.
LoopBuildsWitness ==
  /\ notebook = "rydberg" /\ Natoms = 3
  /\ pc = "loop_number" /\ iloop = 1
  /\ dumoperator[2] = sigmax
  /\ fullnumberop[1].data[4, 4] = 1

(***************************************************************************)
(* What a jump does to the momentum and to the internal state.             *)
(***************************************************************************)

\* The momentum of the basis state i, read off the momentum operator.
POf(i) == momentum.data[i, i]

\* Every basis state that X maps the basis state i to is a g state whose
\* momentum is that of i plus d, and i is an e state.
ShiftsAndDecays(X, d) ==
  \A i \in Idx(DimD) : \A j \in Image(X, i) :
    SOf(i) = 1 /\ SOf(j) = 0 /\ POf(j) = POf(i) + d

IsChannel(name) == name \in {ChannelName[c] : c \in 1 .. 3}

\* C27: Cmk lowers the momentum by exactly 1, Cpk raises it by exactly 1, C0
\* leaves it unchanged; each of them maps e states to g states only and maps
\* every g state to zero.  So right after any jump the state is a g state, the
\* three channel weights are zero there and no jump operator has an image: the
\* next operator that acts with a result is H.
JumpLeavesGround ==
  HasCs =>
    /\ ShiftsAndDecays(Cs[1].op, 0)
    /\ ShiftsAndDecays(Cs[2].op, -1)
    /\ ShiftsAndDecays(Cs[3].op, 1)
    /\ \A c \in 1 .. 3 : \A i \in Idx(DimD) :
         /\ SOf(i) = 0 => ColNorm2(Cs[c].op, i) = 0
         /\ ColNorm2(Cs[c].op, i) # 0 => SOf(i) = 1
    /\ \E i \in Idx(DimD) : WeightsAt(i)[1] > 0
    /\ \E i \in Idx(DimD) : WeightsAt(i)[2] > 0
    /\ \E i \in Idx(DimD) : WeightsAt(i)[3] > 0
    /\ (pc = "solve" /\ IsChannel(lastop)) =>
         /\ SOf(probe) = 0
         /\ WeightsAt(probe) = <<0, 0, 0>>
         /\ \A c \in 1 .. 3 : Image(Cs[c].op, probe) = {}
         /\ Image(H, probe) # {}

\* A jump through Cmk has just taken the atom from |e, p = -1> to |g, p = -2>.
JumpLeavesGroundWitness ==
  /\ notebook = "doppler" /\ pc = "solve"
  /\ lastop = "Cmk"
  /\ SOf(probe) = 0 /\ POf(probe) = -2

(***************************************************************************)
(* The two sublattices of the Doppler basis.                               *)
(***************************************************************************)

\* 0 on {|g, even p>, |e, odd p>}, 1 on {|g, odd p>, |e, even p>}.
ParityClass(i) == (SOf(i) + POf(i) + 2 * nmax) % 2

\* C28: the walk starts in the sublattice {|g, even p>, |e, odd p>} (the
\* support of psi0), and an operator of the notebook moves the state to the
\* other sublattice exactly when it is C0: H, Cmk and Cpk keep the parity
\* class, C0 flips it.
SublatticeFlipsAtC0 ==
  /\ [](HasMomentum => \A i \in SupportOf(psi0) : ParityClass(i) = 0)
  /\ []((pc = "solve" /\ lastop = "none") => ParityClass(probe) = 0)
  /\ [][(pc = "solve" /\ pc' = "solve") =>
          ((ParityClass(probe') # ParityClass(probe)) <=> (lastop' = "C0"))]_vars

\* After a C0 jump, H has taken the atom to an |e, even p> state: the state
\* is outside the sublattice of psi0.
SublatticeWitness ==
  /\ notebook = "doppler" /\ pc = "solve"
  /\ lastop = "H"
  /\ SOf(probe) = 1 /\ POf(probe) % 2 = 0
  /\ ParityClass(probe) = 1

(***************************************************************************)
(* The Doppler model in units of Gamma.                                    *)
(***************************************************************************)

HasTimeax == notebook = "doppler" /\ pc \in {"plot", "export", "done", "error"} /\ timeax # Unset

\* C29: for every wave number and every mass, 400*H/Gamma is
\* p^2 + 100*coupling + 200*Pe (H holds 2*H, so 200*H = Gamma * that), the
\* squared prefactor of each jump operator is 3/5, 1/5, 1/5 of Gamma, and
\* timeax*Gamma is the grid linspace(0, 2000, npoints): none of them depends
\* on k or hbar/mRb, and the exported time column is that grid.
ModelInUnitsOfGamma ==
  /\ OpsDefined =>
       LET reduced == Lin3(1, MatMul(momentum, momentum), 100, coupling, 200, Pe)
       IN  /\ Gamma > 0
           /\ \A p \in DOMAIN H.data : 200 * H.data[p] = Gamma * reduced.data[p]
           /\ \A c \in 1 .. 3 :
                /\ Cs[c].scale = Gamma
                /\ Cs[c].rate5 = <<3, 1, 1>>[c]
                /\ \A p \in DOMAIN Cs[c].op.data : Cs[c].op.data[p] \in {0, 1}
  /\ HasTimeax =>
       /\ Len(timeax) = npoints
       /\ \A j \in 1 .. npoints :
            SameNumber(MulSeq(timeax, Gamma)[j], linspace(0, 2000, npoints)[j])
  /\ (notebook = "doppler" /\ pc = "done") =>
       \A j \in 1 .. npoints :
         SameNumber(exported[j][1], linspace(0, 2000, npoints)[j])

\* A run with another wave number and another mass has exported its rows: the
\* last time is 2000 although timeax ends at 2000/Gamma = 2000/1600.
ModelInUnitsOfGammaWitness ==
  /\ notebook = "doppler" /\ pc = "done"
  /\ k = 2 /\ hbarOvermRb = 2 /\ npoints = 3
  /\ SameNumber(timeax[3], [num |-> 2000, den |-> 1600])
  /\ SameNumber(exported[3][1], [num |-> 2000, den |-> 1])
  /\ H.data[0, 0] = 8 * nmax * nmax

====
